---- MODULE Spec2Model ----
(***************************************************************************)
(* Data-access layer of EarthPulse (src/EarthPulse/src/services/api.ts):   *)
(* the request client EOApiClient, the expiring cache DataCache and the    *)
(* read-through service EOApiService.                                      *)
(*                                                                         *)
(* Strings that the code builds by concatenation (cache keys) are modelled *)
(* as sequences of one-character strings, so that key construction is the  *)
(* concatenation the code performs.  Time is Date.now() in milliseconds.   *)
(*                                                                         *)
(* Specifications:                                                         *)
(*   Spec           the exported service object: cacheable accessors       *)
(*                  running as interleaved async calls, clearCache,        *)
(*                  getCacheStatus.                                        *)
(*   SpecSeq        the same service with calls issued one after another.  *)
(*   SpecOverlap    the same service with calls for two keys and the clock *)
(*                  standing still.                                        *)
(*   SpecDup        one accessor called repeatedly with the same           *)
(*                  arguments, the calls overlapping.                      *)
(*   SpecCaller     the accessors and a caller that writes to the object   *)
(*                  it received.                                           *)
(*   SpecInstances  two service objects side by side.                      *)
(*   SpecClient     EOApiClient.request step by step under the             *)
(*                  pass-through operations of the service.                *)
(*   SpecCache      the DataCache class on its own: set/get/delete/clear   *)
(*                  with arbitrary keys, values and TTL arguments.         *)
(*   SpecMap        the MapContainer component: selections of year and     *)
(*                  indicator and the fetches they start.                  *)
(*   SpecDashboard  the EnvironmentalDashboard component: year changes,    *)
(*                  the Refresh button and the fetches of its effect.      *)
(*   SpecComparison the ComparisonTool component and fetchComparison.      *)
(*   SpecDownload   the DownloadPanel component and handleGenerate.        *)
(***************************************************************************)
EXTENDS Integers, Sequences, FiniteSets, TLC

VARIABLES
    now,      \* Date.now()
    cache,    \* DataCache.cache : Map<string, any>
    ttl,      \* DataCache.ttl   : Map<string, number> (absolute expiry)
    calls,    \* the accessor calls suspended at their await, by call number
    started,  \* number of accessor calls started so far
    last,     \* what the most recent operation on the cache or the service
              \* did and gave back
    written,  \* history: per key, the most recent DataCache.set not yet
              \* followed by a delete or clear: the value, the time until
              \* which the caller asked for it to live, and the value it
              \* replaced
    stores,   \* when several EOApiService objects are constructed: the
              \* DataCache objects they created, each with its two Maps
    mapContainer,    \* MapContainer: its props, its state hooks and the
                     \* fetches its effect started that have not settled
    dashboard,       \* EnvironmentalDashboard: its prop currentYear, its
                     \* indicators and the runs of its effect in progress
    comparisonTool,  \* ComparisonTool: its prop, its state hooks and the
                     \* runs of fetchComparison in progress
    downloadPanel    \* DownloadPanel: its state hooks and where the running
                     \* handleGenerate is suspended

\* The data-access layer and the components that use it.
service == <<now, cache, ttl, calls, started, last, written, stores>>
ui == <<mapContainer, dashboard, comparisonTool, downloadPanel>>

vars == <<now, cache, ttl, calls, started, last, written, stores,
          mapContainer, dashboard, comparisonTool, downloadPanel>>

----------------------------------------------------------------------------
(* Bounds of the model *)

StartTime == 1
MaxCalls == 2

\* Runs of a component's effect, the one at mount included.
MaxEffects == 4

\* Runs of the dashboard's effect, the one at mount included.
MaxRuns == 2

\* Times the download panel is opened.
MaxOpens == 2

(* parseInt(import.meta.env.VITE_CACHE_TTL || '3600000') *)
DefaultTTL == 3600000

----------------------------------------------------------------------------
(* Values *)

\* Payloads a JSON body can decode to: two objects and the number 0.
TruthyData == {"A", "B"}
FalsyData == {"zero"}
Payloads == TruthyData \cup FalsyData

\* A value: its content and, for a decoded response body, where the object
\* comes from: the number of the call whose request produced it, that call's
\* arguments, and whether clearCache() ran between the request and the
\* response.  Other values carry id 0 and no arguments.
Obj(d, i, args, c) == [data |-> d, id |-> i, src |-> args, stale |-> c]
Value(d) == Obj(d, 0, << >>, FALSE)

\* JavaScript null.
NULL == Obj("null", 0, << >>, FALSE)

\* JavaScript truthiness, as `if (cachedData)` and `x || null` test it.
Truthy(v) == v.data \in TruthyData

\* An argument that the caller may omit: <<>> when omitted, <<x>> when given.
Omitted == << >>
Given(x) == <<x>>

----------------------------------------------------------------------------
(* Maps *)

EmptyMap == [k \in {} |-> 0]
MapSet(m, k, v) == [x \in DOMAIN m \cup {k} |-> IF x = k THEN v ELSE m[x]]
MapDelete(m, k) == [x \in DOMAIN m \ {k} |-> m[x]]

----------------------------------------------------------------------------
(* Cache keys: `${op}_${year}_${region}` *)

Digit(d) ==
    CASE d = 0 -> "0" [] d = 1 -> "1" [] d = 2 -> "2" [] d = 3 -> "3"
      [] d = 4 -> "4" [] d = 5 -> "5" [] d = 6 -> "6" [] d = 7 -> "7"
      [] d = 8 -> "8" [] d = 9 -> "9"

\* Number to string, for the integers a year can be.
RECURSIVE NumberToString(_)
NumberToString(n) ==
    IF n < 0 THEN <<"-">> \o NumberToString(0 - n)
    ELSE IF n < 10 THEN <<Digit(n)>>
    ELSE NumberToString(n \div 10) \o <<Digit(n % 10)>>

Ops == {"ndvi", "glacier", "urban", "temperature", "summary"}

\* The literal prefix each accessor puts in its key.
OpPrefix(op) ==
    CASE op = "ndvi" -> <<"n", "d", "v", "i", "_">>
      [] op = "glacier" -> <<"g", "l", "a", "c", "i", "e", "r", "_">>
      [] op = "urban" -> <<"u", "r", "b", "a", "n", "_">>
      [] op = "temperature" ->
            <<"t", "e", "m", "p", "e", "r", "a", "t", "u", "r", "e", "_">>
      [] op = "summary" -> <<"s", "u", "m", "m", "a", "r", "y", "_">>

\* A key-building slip: every accessor uses the prefix of the first one.
CacheKeySamePrefix(op, year, region) ==
    OpPrefix("ndvi") \o NumberToString(year) \o <<"_">> \o region

CacheKey(op, year, region) ==
    OpPrefix(op) \o NumberToString(year) \o <<"_">> \o region

\* region: string = 'nepal_himalayas'
DefaultRegion ==
    <<"n", "e", "p", "a", "l", "_", "h", "i", "m", "a", "l", "a", "y", "a", "s">>

RegionOf(regionArg) ==
    IF regionArg = Omitted THEN DefaultRegion ELSE regionArg[1]

----------------------------------------------------------------------------
(* DataCache: each operation as a function of the two maps and the clock *)

\* A set that stores the period itself instead of the moment it ends.
DataCacheSetPeriod(c, t, n, key, value, customTTL) ==
    LET ms == IF customTTL = Omitted \/ customTTL[1] = 0
              THEN DefaultTTL ELSE customTTL[1]
    IN [cache |-> MapSet(c, key, value), ttl |-> MapSet(t, key, ms)]

DataCacheSet(c, t, n, key, value, customTTL) ==
    LET ms == IF customTTL = Omitted \/ customTTL[1] = 0
              THEN DefaultTTL ELSE customTTL[1]
    IN [cache |-> MapSet(c, key, value), ttl |-> MapSet(t, key, n + ms)]

\* A sliding expiration: a get that finds the entry gives it a new period.
DataCacheGetSliding(c, t, n, key) ==
    IF key \notin DOMAIN t \/ t[key] = 0
    THEN [cache |-> c, ttl |-> t, ret |-> NULL]
    ELSE IF n > t[key]
    THEN [cache |-> MapDelete(c, key), ttl |-> MapDelete(t, key), ret |-> NULL]
    ELSE [cache |-> c, ttl |-> MapSet(t, key, n + DefaultTTL),
          ret |-> IF key \in DOMAIN c /\ Truthy(c[key]) THEN c[key] ELSE NULL]

\* A get whose eviction removes the value and forgets the expiry time.
DataCacheGetHalfEvict(c, t, n, key) ==
    IF key \notin DOMAIN t \/ t[key] = 0
    THEN [cache |-> c, ttl |-> t, ret |-> NULL]
    ELSE IF n > t[key]
    THEN [cache |-> MapDelete(c, key), ttl |-> t, ret |-> NULL]
    ELSE [cache |-> c, ttl |-> t,
          ret |-> IF key \in DOMAIN c /\ Truthy(c[key]) THEN c[key] ELSE NULL]

DataCacheGet(c, t, n, key) ==
    IF key \notin DOMAIN t \/ t[key] = 0
    THEN [cache |-> c, ttl |-> t, ret |-> NULL]
    ELSE IF n > t[key]
    THEN [cache |-> MapDelete(c, key), ttl |-> MapDelete(t, key), ret |-> NULL]
    ELSE [cache |-> c, ttl |-> t,
          ret |-> IF key \in DOMAIN c /\ Truthy(c[key]) THEN c[key] ELSE NULL]

\* A clear that forgets the expiry times but keeps the values.
DataCacheClearTtlOnly(c, t) == [cache |-> c, ttl |-> EmptyMap]

DataCacheClear(c, t) == [cache |-> EmptyMap, ttl |-> EmptyMap]

\* A delete that removes the value and leaves the expiry time behind.
DataCacheDeleteValueOnly(c, t, key) ==
    [cache |-> MapDelete(c, key), ttl |-> t]

DataCacheDelete(c, t, key) ==
    [cache |-> MapDelete(c, key), ttl |-> MapDelete(t, key)]

\* A status that leaves out the entries whose expiry time has passed.
CacheStatusPruned(c) ==
    LET live == {k \in DOMAIN c : k \in DOMAIN ttl /\ now < ttl[k]}
    IN [size |-> Cardinality(live), keys |-> live]

\* { size: this.cache['cache'].size, keys: Array.from(this.cache['cache'].keys()) }
CacheStatus(c) == [size |-> Cardinality(DOMAIN c), keys |-> DOMAIN c]

----------------------------------------------------------------------------
(* EOApiClient.request: what the awaited request yields for each way the    *)
(* HTTP exchange can end                                                    *)

\* Bodies the server answers with.
ServerData == {"A", "zero"}

Outcomes ==
    [kind : {"ok"}, status : {200}, data : ServerData]
      \cup [kind : {"http"}, status : {500}, data : {"none"}]
      \cup [kind : {"decode"}, status : {200}, data : {"none"}]
      \cup [kind : {"transport"}, status : {0}, data : {"none"}]

NoError == [name |-> "none", status |-> 0]

\* A catch block that rethrows a new plain Error for whatever it caught.
RequestErrorWrapped(o) ==
    IF o.kind = "ok" THEN [name |-> "none", status |-> 0]
    ELSE [name |-> "Error", status |-> o.status]

\* fetch rejects with a TypeError; !response.ok throws
\* new Error(`HTTP error! status: ${response.status}`); response.json() rejects
\* with a SyntaxError.  The catch block logs and rethrows the same error.
RequestError(o) ==
    CASE o.kind = "http" -> [name |-> "Error", status |-> o.status]
      [] o.kind = "decode" -> [name |-> "SyntaxError", status |-> 0]
      [] o.kind = "transport" -> [name |-> "TypeError", status |-> 0]
      [] OTHER -> NoError

----------------------------------------------------------------------------
(* The components as React mounts them: the useState initial values, the    *)
(* props App passes (currentYear 2020, selectedIndicator 'ndvi'), and the   *)
(* first run of each component's effect                                     *)

\* A component that App has not rendered yet.
Unmounted == [mounted |-> FALSE]

\* What useState<string | null>(null) holds before an error is set.
NoErrorMessage == "null"

\* mapDataPoints: the markers on the map.  kind is "empty" for [], "data"
\* for markers made from fetched data points, "sample" for the sample
\* markers; year and type are the year and indicator the markers were made
\* for.
MapPoints(kind, year, type) == [kind |-> kind, year |-> year, type |-> type]

\* A fetchEnvironmentalData() suspended at its await.
MapFetch(id, year, indicator) == [id |-> id, year |-> year, indicator |-> indicator]

\* MapContainer after its first render and effect: fetchEnvironmentalData()
\* has called setIsLoading(true), setError(null) and awaits the service.
MapContainerMounted ==
    [currentYear |-> 2020, selectedIndicator |-> "ndvi",
     isLoading |-> TRUE, error |-> NoErrorMessage,
     mapDataPoints |-> MapPoints("empty", 0, "none"),
     fetches |-> {MapFetch(1, 2020, "ndvi")}, effects |-> 1]

\* The indicators of the dashboard, by id.
IndicatorIds == {"ndvi", "glacier", "urban", "temperature"}

\* An indicator card: isLoading, error ("undefined" or the message) and the
\* year its value was fetched for (0 for the initial value 0).
Indicator(isLoading, error, year) ==
    [isLoading |-> isLoading, error |-> error, year |-> year]

\* A run of the dashboard's effect: the year and the indicators array of the
\* render it closed over, and how the fetches that have settled ended.
DashRun(id, year, base, results) ==
    [id |-> id, year |-> year, base |-> base, results |-> results]

\* `indicator.isLoading = true; setIndicators([...indicators])` for every
\* indicator, each async callback running up to its await.
MarkLoading(indicators) ==
    [i \in IndicatorIds |-> [indicators[i] EXCEPT !.isLoading = TRUE]]

\* EnvironmentalDashboard after its first render and effect: every card
\* loading and the four fetches of run 1 in flight.
DashboardMounted ==
    LET initial == [i \in IndicatorIds |-> Indicator(TRUE, "undefined", 0)]
    IN [currentYear |-> 2020, indicators |-> MarkLoading(initial),
        runs |-> {DashRun(1, 2020, MarkLoading(initial), EmptyMap)},
        effects |-> 1, op |-> "mount"]

\* The methods of class EOApiService.
ServiceMethods ==
    {"getNDVIData", "getGlacierData", "getUrbanData", "getTemperatureData",
     "getEnvironmentalSummary", "getRegions", "generateReport", "exportData",
     "clearCache", "getCacheStatus"}

\* obj.method(...): a call of a method the object has, or the TypeError
\* "obj.method is not a function", thrown where the call stands.
MethodCall(methods, method) ==
    IF method \in methods THEN "called" ELSE "TypeError"

\* What ComparisonTool shows: "null", or a result array with its origin
\* ("backend" for the data the temporal-comparison call returned, "fallback"
\* for the comparison computed from two NDVI reads), its years, and how the
\* temporal-comparison call of the same run had ended.
CmpResults(origin, baseline, year, backend) ==
    [origin |-> origin, baseline |-> baseline, year |-> year,
     backend |-> backend]
NoResults == CmpResults("null", 0, 0, "none")

\* A fetchComparison() suspended at an await: pc names the await
\* ("comparison", "baseline", "latest"); backend is how
\* apiService.getTemporalComparison(...) went in this run.
CmpRun(id, pc, baseline, year, region, backend) ==
    [id |-> id, pc |-> pc, baseline |-> baseline, year |-> year,
     region |-> region, backend |-> backend]

\* fetchComparison() from its start to its first await that suspends: the
\* apiService imported from api.ts is the EOApiService object, so the call
\* in the try block either suspends on the service's request or throws at
\* once into the catch block, whose first await is the baseline NDVI read.
FetchComparison(id, baseline, year, region) ==
    LET backend == MethodCall(ServiceMethods, "getTemporalComparison")
    IN CmpRun(id, IF backend = "called" THEN "comparison" ELSE "baseline",
              baseline, year, region, backend)

\* ComparisonTool after its first render and effect: comparisonYear 2000 is
\* less than currentYear 2020, so fetchComparison() ran.
ComparisonToolMounted ==
    [currentYear |-> 2020, comparisonYear |-> 2000,
     selectedRegion |-> "kathmandu", results |-> NoResults,
     loading |-> TRUE, error |-> NoErrorMessage,
     runs |-> {FetchComparison(1, 2000, 2020, "kathmandu")}, effects |-> 1]

\* DownloadPanel when App mounts it: the useState initial values and no
\* handleGenerate running.  pc is where the running handleGenerate is
\* suspended ("report", "export", "blob") or "idle"; opens counts the times
\* the panel has been opened.
DownloadPanelMounted ==
    [selectedFormat |-> "pdf", selectedData |-> {"map", "charts", "data"},
     isGenerating |-> FALSE, isComplete |-> FALSE,
     downloadUrl |-> "null", downloadName |-> "export",
     pc |-> "idle", opens |-> 1]

----------------------------------------------------------------------------
(* Initial state: a freshly constructed EOApiService *)

\* What the most recent operation gave back to its caller.  op is what
\* happened: for an accessor "hit" (it returned the cached value), "request"
\* (it missed and called the Request Client), "return" / "throw" (it completed
\* after its request); "clearCache"; "getCacheStatus"; or a DataCache
\* operation.  args and key are the accessor's arguments and cache key (key
\* alone for a DataCache operation); val and err are what was returned or
\* thrown; size and keys what getCacheStatus reported (for clearCache, keys are
\* the keys that were stored when it ran).
NoLast == [op |-> "none", args |-> << >>, key |-> << >>, val |-> NULL,
           err |-> [name |-> "none", status |-> 0], size |-> 0, keys |-> {}]

\* The history entry of a set.
Record(w, key, value, until) ==
    MapSet(w, key, [value |-> value, until |-> until,
                    prev |-> IF key \in DOMAIN w THEN <<w[key].value>> ELSE << >>])

\* The service objects constructed by `new EOApiService()`.
Instances == {1, 2}

\* One DataCache for every service object, the same for all of them.
CacheOfShared(s) == 1

\* this.cache = new DataCache(): the constructor of service object s creates
\* a DataCache of its own, whose Maps are created by its field initialisers.
\* DataCache objects are numbered by the service object that created them.
CacheOf(s) == s

Init ==
    /\ now = StartTime
    /\ cache = EmptyMap
    /\ ttl = EmptyMap
    /\ calls = EmptyMap
    /\ started = 0
    /\ last = NoLast
    /\ written = EmptyMap
    /\ stores = [d \in {CacheOf(s) : s \in Instances} |->
                   [cache |-> EmptyMap, ttl |-> EmptyMap]]
    /\ mapContainer = Unmounted
    /\ dashboard = Unmounted
    /\ comparisonTool = Unmounted
    /\ downloadPanel = Unmounted

----------------------------------------------------------------------------
(* The clock *)

\* The clock is observed at four moments: StartTime, one millisecond later,
\* one TTL period after StartTime, and one millisecond after that.  An entry
\* stored at StartTime is so seen fresh, one millisecond old, exactly at its
\* expiry time and one millisecond past it.
Moments == {StartTime, StartTime + 1,
            StartTime + DefaultTTL, StartTime + DefaultTTL + 1}

Deltas == {1, DefaultTTL}

Tick ==
    \E d \in Deltas :
        /\ now + d \in Moments
        /\ now' = now + d
        /\ UNCHANGED <<cache, ttl, calls, started, last, written, stores, ui>>

----------------------------------------------------------------------------
(* EOApiService *)

\* The arguments the accessors are called with.
Years == {2, 20}
Regions == {<<"r">>, <<"0", "_", "r">>}
AllInputs == Ops \X Years \X Regions
Inputs == {<<"ndvi", 2, <<"r">> >>, <<"glacier", 2, <<"r">> >>,
           <<"urban", 20, <<"r">> >>, <<"temperature", 2, <<"0", "_", "r">> >>,
           <<"summary", 20, <<"0", "_", "r">> >>}

\* get<X>Data(year, region) up to its first await: the key, the cache lookup,
\* and either the return of the cached value or the call of the Request Client,
\* which leaves the accessor suspended.
Call(op, year, region) ==
    LET key == CacheKey(op, year, region)
        g == DataCacheGet(cache, ttl, now, key)
        cachedData == g.ret
        id == started + 1
        me == [NoLast EXCEPT !.args = <<op, year, region>>, !.key = key]
    IN /\ started' = id
       /\ cache' = g.cache
       /\ ttl' = g.ttl
       /\ IF Truthy(cachedData)
          THEN /\ calls' = calls
               /\ last' = [me EXCEPT !.op = "hit", !.val = cachedData]
          ELSE /\ calls' = MapSet(calls, id,
                     [op |-> op, year |-> year, region |-> region,
                      key |-> key, cleared |-> FALSE])
               /\ last' = [me EXCEPT !.op = "request"]
       /\ UNCHANGED <<now, written, stores, ui>>

\* An accessor that waits until no other call is suspended before it runs.
StartCallSerialized(op, year, region) ==
    /\ started < MaxCalls
    /\ DOMAIN calls = {}
    /\ Call(op, year, region)

\* An accessor call, while the model has calls left.
StartCall(op, year, region) ==
    /\ started < MaxCalls
    /\ Call(op, year, region)

\* The arguments of a suspended call, and what identifies it to its caller.
Args(i) == <<calls[i].op, calls[i].year, calls[i].region>>
Completion(i) == [NoLast EXCEPT !.args = Args(i), !.key = calls[i].key]

\* The request resolved with a decoded body: cache.set(cacheKey, data); return data
ResolveCall(i, o) ==
    LET data == Obj(o.data, i, Args(i), calls[i].cleared)
        s == DataCacheSet(cache, ttl, now, calls[i].key, data, Omitted)
    IN /\ o.kind = "ok"
       /\ cache' = s.cache
       /\ ttl' = s.ttl
       /\ calls' = MapDelete(calls, i)
       /\ last' = [Completion(i) EXCEPT !.op = "return", !.val = data]
       /\ written' = Record(written, calls[i].key, data, now + DefaultTTL)
       /\ UNCHANGED <<now, started, stores, ui>>

\* A failure path that remembers the failure under the key.
FailCallCaching(i, o) ==
    LET s == DataCacheSet(cache, ttl, now, calls[i].key,
                          Obj("error", i, Args(i), calls[i].cleared), Omitted)
    IN /\ o.kind # "ok"
       /\ cache' = s.cache
       /\ ttl' = s.ttl
       /\ calls' = MapDelete(calls, i)
       /\ last' = [Completion(i) EXCEPT !.op = "throw",
                                        !.err = RequestError(o)]
       /\ UNCHANGED <<now, started, written, stores, ui>>

\* The request threw: the await rethrows and the accessor ends there
FailCall(i, o) ==
    /\ o.kind # "ok"
    /\ calls' = MapDelete(calls, i)
    /\ last' = [Completion(i) EXCEPT !.op = "throw", !.err = RequestError(o)]
    /\ UNCHANGED <<now, cache, ttl, started, written, stores, ui>>

ClearCache ==
    LET s == DataCacheClear(cache, ttl)
    IN /\ cache' = s.cache
       /\ ttl' = s.ttl
       /\ calls' = [i \in DOMAIN calls |-> [calls[i] EXCEPT !.cleared = TRUE]]
       /\ last' = [NoLast EXCEPT !.op = "clearCache", !.keys = DOMAIN cache]
       /\ written' = EmptyMap
       /\ UNCHANGED <<now, started, stores, ui>>

\* A status call that also drops the entries it finds expired.
GetCacheStatusPruning ==
    LET live == {k \in DOMAIN cache : k \in DOMAIN ttl /\ ~(now > ttl[k])}
    IN /\ cache' = [k \in live |-> cache[k]]
       /\ ttl' = [k \in live |-> ttl[k]]
       /\ last' = [NoLast EXCEPT !.op = "getCacheStatus",
                                 !.size = Cardinality(live), !.keys = live]
       /\ UNCHANGED <<now, calls, started, written, stores, ui>>

GetCacheStatus ==
    LET r == CacheStatus(cache)
    IN /\ last' = [NoLast EXCEPT !.op = "getCacheStatus",
                                 !.size = r.size, !.keys = r.keys]
       /\ UNCHANGED <<now, cache, ttl, calls, started, written, stores, ui>>

Next ==
    \/ \E in \in Inputs : StartCall(in[1], in[2], in[3])
    \/ \E i \in DOMAIN calls, o \in Outcomes : ResolveCall(i, o)
    \/ \E i \in DOMAIN calls, o \in Outcomes : FailCall(i, o)
    \/ ClearCache
    \/ GetCacheStatus
    \/ Tick

Spec == Init /\ [][Next]_vars

\* The same service when every call is issued after the previous one has
\* completed, and the cache is never cleared.
StartCallAlone(op, year, region) ==
    /\ DOMAIN calls = {}
    /\ StartCall(op, year, region)

NextSeq ==
    \/ \E in \in Inputs : StartCallAlone(in[1], in[2], in[3])
    \/ \E i \in DOMAIN calls, o \in Outcomes : ResolveCall(i, o)
    \/ \E i \in DOMAIN calls, o \in Outcomes : FailCall(i, o)
    \/ Tick

SpecSeq == Init /\ [][NextSeq]_vars

----------------------------------------------------------------------------
(* The service under overlapping calls for two keys, the clock standing     *)
(* still                                                                    *)

OverlapInputs == {<<"ndvi", 2, <<"r">> >>, <<"glacier", 2, <<"r">> >>}

NextOverlap ==
    \/ \E in \in OverlapInputs : StartCall(in[1], in[2], in[3])
    \/ \E i \in DOMAIN calls, o \in Outcomes : ResolveCall(i, o)
    \/ \E i \in DOMAIN calls, o \in Outcomes : FailCall(i, o)
    \/ ClearCache
    \/ GetCacheStatus

SpecOverlap == Init /\ [][NextOverlap]_vars

----------------------------------------------------------------------------
(* One accessor called repeatedly with the same arguments, the calls        *)
(* overlapping freely                                                       *)

MaxDup == 3

DupKey == CacheKey("ndvi", 2, <<"r">>)

StartDup ==
    /\ started < MaxDup
    /\ Call("ndvi", 2, <<"r">>)

NextDup ==
    \/ StartDup
    \/ \E i \in DOMAIN calls, o \in Outcomes : ResolveCall(i, o)
    \/ \E i \in DOMAIN calls, o \in Outcomes : FailCall(i, o)
    \/ Tick

SpecDup == Init /\ [][NextDup]_vars

----------------------------------------------------------------------------
(* Two service objects side by side *)

InstInputs == {<<"ndvi", 2, <<"r">> >>, <<"glacier", 2, <<"r">> >>}

\* The Maps of the DataCache that service object s uses.
StoreOf(s) == stores[CacheOf(s)]

\* stores with the Maps of s's DataCache replaced.
StoreSet(s, c, t) == [stores EXCEPT ![CacheOf(s)] = [cache |-> c, ttl |-> t]]

\* s.get<X>Data(year, region) up to its first await.
InstCall(s, op, year, region) ==
    LET key == CacheKey(op, year, region)
        g == DataCacheGet(StoreOf(s).cache, StoreOf(s).ttl, now, key)
        cachedData == g.ret
        id == started + 1
        me == [NoLast EXCEPT !.args = <<s, op, year, region>>, !.key = key]
    IN /\ started < MaxCalls
       /\ started' = id
       /\ stores' = StoreSet(s, g.cache, g.ttl)
       /\ IF Truthy(cachedData)
          THEN /\ calls' = calls
               /\ last' = [me EXCEPT !.op = "hit", !.val = cachedData]
          ELSE /\ calls' = MapSet(calls, id,
                     [svc |-> s, op |-> op, year |-> year, region |-> region,
                      key |-> key, cleared |-> FALSE])
               /\ last' = [me EXCEPT !.op = "request"]
       /\ UNCHANGED <<now, cache, ttl, written, ui>>

InstArgs(i) == <<calls[i].svc, calls[i].op, calls[i].year, calls[i].region>>

\* The request of a call of s resolved: s.cache.set(cacheKey, data); return data
InstResolve(i, o) ==
    LET svc == calls[i].svc
        data == Obj(o.data, i, InstArgs(i), calls[i].cleared)
        w == DataCacheSet(StoreOf(svc).cache, StoreOf(svc).ttl, now,
                          calls[i].key, data, Omitted)
    IN /\ o.kind = "ok"
       /\ stores' = StoreSet(svc, w.cache, w.ttl)
       /\ calls' = MapDelete(calls, i)
       /\ last' = [NoLast EXCEPT !.op = "return", !.args = InstArgs(i),
                                 !.key = calls[i].key, !.val = data]
       /\ UNCHANGED <<now, cache, ttl, started, written, ui>>

\* The request of a call of s threw.
InstFail(i, o) ==
    /\ o.kind # "ok"
    /\ calls' = MapDelete(calls, i)
    /\ last' = [NoLast EXCEPT !.op = "throw", !.args = InstArgs(i),
                              !.key = calls[i].key, !.err = RequestError(o)]
    /\ UNCHANGED <<now, cache, ttl, started, written, stores, ui>>

\* s.clearCache()
InstClearCache(s) ==
    LET w == DataCacheClear(StoreOf(s).cache, StoreOf(s).ttl)
    IN /\ stores' = StoreSet(s, w.cache, w.ttl)
       /\ calls' = [i \in DOMAIN calls |->
                      IF calls[i].svc = s
                      THEN [calls[i] EXCEPT !.cleared = TRUE] ELSE calls[i]]
       /\ last' = [NoLast EXCEPT !.op = "clearCache", !.args = <<s>>,
                                 !.keys = DOMAIN StoreOf(s).cache]
       /\ UNCHANGED <<now, cache, ttl, started, written, ui>>

\* s.getCacheStatus()
InstGetCacheStatus(s) ==
    LET r == CacheStatus(StoreOf(s).cache)
    IN /\ last' = [NoLast EXCEPT !.op = "getCacheStatus", !.args = <<s>>,
                                 !.size = r.size, !.keys = r.keys]
       /\ UNCHANGED <<now, cache, ttl, calls, started, written, stores, ui>>

NextInstances ==
    \/ \E s \in Instances, in \in InstInputs : InstCall(s, in[1], in[2], in[3])
    \/ \E i \in DOMAIN calls, o \in Outcomes : InstResolve(i, o)
    \/ \E i \in DOMAIN calls, o \in Outcomes : InstFail(i, o)
    \/ \E s \in Instances : InstClearCache(s)
    \/ \E s \in Instances : InstGetCacheStatus(s)

SpecInstances == Init /\ [][NextInstances]_vars

----------------------------------------------------------------------------
(* A caller that writes to the object an accessor returned *)

\* The accessor returns the object it stored (`return data` after
\* `cache.set(cacheKey, data)`) or the object it found (`return cachedData`):
\* the caller and the cache hold the same object, so an assignment to one of
\* its properties by the caller is an assignment to the stored object.  An
\* object is identified by the call that decoded it.
CallerModifies ==
    /\ last.op \in {"hit", "return"}
    /\ Truthy(last.val)
    /\ \E d \in TruthyData \ {last.val.data} :
          /\ cache' = [k \in DOMAIN cache |->
                         IF Truthy(cache[k]) /\ cache[k].id = last.val.id
                         THEN [cache[k] EXCEPT !.data = d] ELSE cache[k]]
          /\ last' = [last EXCEPT !.op = "modify", !.val.data = d]
    /\ UNCHANGED <<now, ttl, calls, started, written, stores, ui>>

NextCaller ==
    \/ \E in \in Inputs : StartCall(in[1], in[2], in[3])
    \/ \E i \in DOMAIN calls, o \in Outcomes : ResolveCall(i, o)
    \/ \E i \in DOMAIN calls, o \in Outcomes : FailCall(i, o)
    \/ CallerModifies

SpecCaller == Init /\ [][NextCaller]_vars

----------------------------------------------------------------------------
(* DataCache on its own *)

CKeys == {<<"k">>, <<"j">>}
CValues == {Value(d) : d \in Payloads}
TTLArgs == {Omitted, Given(0), Given(1)}

\* The lifetime the caller asked for.
AskedTTL(customTTL) == IF customTTL = Omitted THEN DefaultTTL ELSE customTTL[1]

CacheSet(key, value, customTTL) ==
    LET s == DataCacheSet(cache, ttl, now, key, value, customTTL)
    IN /\ cache' = s.cache
       /\ ttl' = s.ttl
       /\ last' = [NoLast EXCEPT !.op = "set", !.key = key]
       /\ written' = Record(written, key, value, now + AskedTTL(customTTL))
       /\ UNCHANGED <<now, calls, started, stores, ui>>

CacheGet(key) ==
    LET g == DataCacheGet(cache, ttl, now, key)
    IN /\ cache' = g.cache
       /\ ttl' = g.ttl
       /\ last' = [NoLast EXCEPT !.op = "get", !.key = key, !.val = g.ret]
       /\ UNCHANGED <<now, calls, started, written, stores, ui>>

CacheDelete(key) ==
    LET s == DataCacheDelete(cache, ttl, key)
    IN /\ cache' = s.cache
       /\ ttl' = s.ttl
       /\ last' = [NoLast EXCEPT !.op = "delete", !.key = key]
       /\ written' = MapDelete(written, key)
       /\ UNCHANGED <<now, calls, started, stores, ui>>

CacheClear ==
    LET s == DataCacheClear(cache, ttl)
    IN /\ cache' = s.cache
       /\ ttl' = s.ttl
       /\ last' = [NoLast EXCEPT !.op = "clear"]
       /\ written' = EmptyMap
       /\ UNCHANGED <<now, calls, started, stores, ui>>

NextCache ==
    \/ \E k \in CKeys, v \in CValues, a \in TTLArgs : CacheSet(k, v, a)
    \/ \E k \in CKeys : CacheGet(k)
    \/ \E k \in CKeys : CacheDelete(k)
    \/ CacheClear
    \/ Tick

SpecCache == Init /\ [][NextCache]_vars

----------------------------------------------------------------------------
(* EOApiClient.request step by step, under the pass-through operations of   *)
(* the service: getRegions, generateReport, exportData                      *)

MaxRequests == 3

\* Statuses a response can carry; response.ok is true for 200..299.
Statuses == {200, 404, 500}
ResponseOk(status) == status >= 200 /\ status <= 299

\* How `await fetch(url, config)` settles: with a response, or by rejecting.
FetchResults ==
    [kind : {"response"}, status : Statuses]
      \cup {[kind |-> "reject", status |-> 0]}

\* How `await response.json()` settles: with the decoded body (an object, the
\* number 0 or null), or by rejecting.
Bodies == {"A", "zero", "nil"}
JsonResults ==
    [kind : {"value"}, data : Bodies] \cup {[kind |-> "reject", data |-> "none"]}

\* The way the exchange ended, as the accessors see it.
Exchange(kind, status) == [kind |-> kind, status |-> status, data |-> "none"]

PassOps == {"regions", "report", "export"}
AccessorCalls == {i \in DOMAIN calls : calls[i].op \in Ops}
PassCalls == {i \in DOMAIN calls : calls[i].op \in PassOps}

\* result => result.regions
ResultRegions(d) == IF d = "A" THEN "A.regions" ELSE "undefined"

\* Reading a property of null throws a TypeError.
PropertyReadError == [name |-> "TypeError", status |-> 0]

\* A pass-through operation that joins an identical call already in flight
\* instead of calling the Request Client again.
StartPassOnce(op) ==
    LET id == started + 1
    IN /\ started < MaxRequests
       /\ started' = id
       /\ IF \E i \in DOMAIN calls : calls[i].op = op
          THEN /\ calls' = calls
               /\ last' = [NoLast EXCEPT !.op = "hit", !.args = <<op>>]
          ELSE /\ calls' = MapSet(calls, id,
                                  [op |-> op, pc |-> "fetch", fetches |-> 1])
               /\ last' = [NoLast EXCEPT !.op = "request", !.args = <<op>>]
       /\ UNCHANGED <<now, cache, ttl, written, stores, ui>>

\* getRegions() / generateReport(request) / exportData(request): the service
\* calls the client method, which calls request, which runs up to
\* `await fetch(url, config)`.
StartPass(op) ==
    LET id == started + 1
    IN /\ started < MaxRequests
       /\ started' = id
       /\ calls' = MapSet(calls, id, [op |-> op, pc |-> "fetch", fetches |-> 1])
       /\ last' = [NoLast EXCEPT !.op = "request", !.args = <<op>>]
       /\ UNCHANGED <<now, cache, ttl, written, stores, ui>>

PassCompletion(i) == [NoLast EXCEPT !.args = <<calls[i].op>>]

\* A request that fetches once more after a first failure.
FetchSettlesRetrying(i, r) ==
    /\ calls[i].pc = "fetch"
    /\ IF r.kind = "response" /\ ResponseOk(r.status)
       THEN /\ calls' = [calls EXCEPT ![i].pc = "json"]
            /\ last' = last
       ELSE IF calls[i].fetches = 1
       THEN /\ calls' = [calls EXCEPT ![i].fetches = 2]
            /\ last' = last
       ELSE /\ calls' = MapDelete(calls, i)
            /\ last' = [PassCompletion(i) EXCEPT
                          !.op = "throw",
                          !.err = RequestError(
                              Exchange(IF r.kind = "reject" THEN "transport"
                                       ELSE "http", r.status))]
    /\ UNCHANGED <<now, cache, ttl, started, written, stores, ui>>

\* fetch settled.  A rejection goes to the catch block, which logs and
\* rethrows; a response that is not ok throws the HTTP error into the same
\* catch block; an ok response goes on to `await response.json()`.
FetchSettles(i, r) ==
    /\ calls[i].pc = "fetch"
    /\ IF r.kind = "response" /\ ResponseOk(r.status)
       THEN /\ calls' = [calls EXCEPT ![i].pc = "json"]
            /\ last' = last
       ELSE /\ calls' = MapDelete(calls, i)
            /\ last' = [PassCompletion(i) EXCEPT
                          !.op = "throw",
                          !.err = RequestError(
                              Exchange(IF r.kind = "reject" THEN "transport"
                                       ELSE "http", r.status))]
    /\ UNCHANGED <<now, cache, ttl, started, written, stores, ui>>

\* A decode failure that is caught and answered with null.
JsonSettlesSwallowing(i, b) ==
    /\ calls[i].pc = "json"
    /\ calls' = MapDelete(calls, i)
    /\ last' = [PassCompletion(i) EXCEPT !.op = "return", !.val = Value("nil")]
    /\ UNCHANGED <<now, cache, ttl, started, written, stores, ui>>

\* response.json() settled.  A rejection is logged and rethrown; a decoded
\* body is returned by request and by the client method, and the service
\* returns it as it is, or its .regions for getRegions.
JsonSettles(i, b) ==
    /\ calls[i].pc = "json"
    /\ calls' = MapDelete(calls, i)
    /\ last' =
         IF b.kind = "reject"
         THEN [PassCompletion(i) EXCEPT
                 !.op = "throw", !.err = RequestError(Exchange("decode", 0))]
         ELSE IF calls[i].op # "regions"
         THEN [PassCompletion(i) EXCEPT !.op = "return", !.val = Value(b.data)]
         ELSE IF b.data = "nil"
         THEN [PassCompletion(i) EXCEPT !.op = "throw", !.err = PropertyReadError]
         ELSE [PassCompletion(i) EXCEPT
                 !.op = "return", !.val = Value(ResultRegions(b.data))]
    /\ UNCHANGED <<now, cache, ttl, started, written, stores, ui>>

\* The pass-through operations beside one cacheable accessor.
NextClient ==
    \/ \E op \in PassOps : StartPass(op)
    \/ \E i \in PassCalls, r \in FetchResults : FetchSettles(i, r)
    \/ \E i \in PassCalls, b \in JsonResults : JsonSettles(i, b)
    \/ StartCall("ndvi", 2, <<"r">>)
    \/ \E i \in AccessorCalls, o \in Outcomes : ResolveCall(i, o)
    \/ \E i \in AccessorCalls, o \in Outcomes : FailCall(i, o)

SpecClient == Init /\ [][NextClient]_vars

----------------------------------------------------------------------------
(* MapContainer: the effect on [currentYear, selectedIndicator] and         *)
(* fetchEnvironmentalData                                                   *)

\* The years and indicators the user selects.
MapYears == {2020, 2021}
MapIndicators == {"ndvi", "glacier"}

\* setError('Failed to load environmental data. Using sample data.')
MapErrorMessage == "Failed to load environmental data. Using sample data."

\* The user moves the time slider or picks an indicator: App passes new
\* props, the effect runs and fetchEnvironmentalData() goes as far as its
\* await.  Nothing is done about the fetches already in flight.
MapSelect(year, indicator) ==
    LET id == mapContainer.effects + 1
    IN /\ mapContainer # Unmounted
       /\ mapContainer.effects < MaxEffects
       /\ <<year, indicator>> #
            <<mapContainer.currentYear, mapContainer.selectedIndicator>>
       /\ mapContainer' =
            [mapContainer EXCEPT
               !.currentYear = year, !.selectedIndicator = indicator,
               !.isLoading = TRUE, !.error = NoErrorMessage,
               !.fetches = @ \cup {MapFetch(id, year, indicator)},
               !.effects = id]
       /\ UNCHANGED <<service, dashboard, comparisonTool, downloadPanel>>

\* The awaited accessor returned data with data_points:
\* transformEnvironmentalDataToMapPoints sets the markers of the fetch's own
\* indicator and year; finally setIsLoading(false).
MapFetchReturns(f) ==
    /\ mapContainer' =
         [mapContainer EXCEPT
            !.mapDataPoints = MapPoints("data", f.year, f.indicator),
            !.isLoading = FALSE,
            !.fetches = @ \ {f}]
    /\ UNCHANGED <<service, dashboard, comparisonTool, downloadPanel>>

\* The awaited accessor threw (or the transform did): catch sets the error
\* message and the sample markers of the fetch's own indicator and year;
\* finally setIsLoading(false).
MapFetchThrows(f) ==
    /\ mapContainer' =
         [mapContainer EXCEPT
            !.error = MapErrorMessage,
            !.mapDataPoints = MapPoints("sample", f.year, f.indicator),
            !.isLoading = FALSE,
            !.fetches = @ \ {f}]
    /\ UNCHANGED <<service, dashboard, comparisonTool, downloadPanel>>

\* The fetches in flight.
MapFetches == IF mapContainer = Unmounted THEN {} ELSE mapContainer.fetches

\* App renders the component.
MapMount ==
    /\ mapContainer = Unmounted
    /\ mapContainer' = MapContainerMounted
    /\ UNCHANGED <<service, dashboard, comparisonTool, downloadPanel>>

NextMap ==
    \/ MapMount
    \/ \E y \in MapYears, ind \in MapIndicators : MapSelect(y, ind)
    \/ \E f \in MapFetches : MapFetchReturns(f)
    \/ \E f \in MapFetches : MapFetchThrows(f)

SpecMap == Init /\ [][NextMap]_vars

----------------------------------------------------------------------------
(* EnvironmentalDashboard: the effect on [currentYear], its Promise.all, and *)
(* handleRefreshData                                                        *)

DashYears == {2020, 2021}

\* `API Error: ${...}`
DashErrorMessage == "API Error"

\* What the callback of indicators.map returns for indicator i of run r when
\* its fetch ended as out.
UpdatedIndicator(r, i, out) ==
    IF out = "ok"
    THEN Indicator(FALSE, "undefined", r.year)
    ELSE [r.base[i] EXCEPT !.isLoading = FALSE, !.error = DashErrorMessage]

\* The time slider moves: the effect runs again and starts four fetches for
\* the new year.
DashYearChange(year) ==
    LET id == dashboard.effects + 1
        marked == MarkLoading(dashboard.indicators)
    IN /\ dashboard # Unmounted
       /\ dashboard.effects < MaxRuns
       /\ year # dashboard.currentYear
       /\ dashboard' =
            [dashboard EXCEPT
               !.currentYear = year, !.indicators = marked,
               !.runs = @ \cup {DashRun(id, year, marked, EmptyMap)},
               !.effects = id, !.op = "year"]
       /\ UNCHANGED <<service, mapContainer, comparisonTool, downloadPanel>>

\* One fetch of run r settles.  When it is the last of the run, Promise.all
\* resolves and setIndicators(updatedIndicators) replaces the whole array.
DashFetchSettles(r, i, out) ==
    LET results == MapSet(r.results, i, out)
    IN /\ i \notin DOMAIN r.results
       /\ IF DOMAIN results = IndicatorIds
          THEN dashboard' =
                 [dashboard EXCEPT
                    !.indicators =
                       [j \in IndicatorIds |-> UpdatedIndicator(r, j, results[j])],
                    !.runs = @ \ {r}, !.op = "settle"]
          ELSE dashboard' =
                 [dashboard EXCEPT
                    !.runs = (@ \ {r}) \cup
                             {DashRun(r.id, r.year, r.base, results)},
                    !.op = "settle"]
       /\ UNCHANGED <<service, mapContainer, comparisonTool, downloadPanel>>

\* The Refresh button: every card is set to loading with no error, and a
\* 'refreshEnvironmentalData' event is dispatched on window.  No code listens
\* to that event, and the effect depends on [currentYear] alone, so no fetch
\* starts.
HandleRefreshData ==
    /\ dashboard # Unmounted
    /\ dashboard' =
         [dashboard EXCEPT
            !.indicators =
               [i \in IndicatorIds |->
                  [@[i] EXCEPT !.isLoading = TRUE, !.error = "undefined"]],
            !.op = "refresh"]
    /\ UNCHANGED <<service, mapContainer, comparisonTool, downloadPanel>>

\* The runs of the effect in progress.
DashRuns == IF dashboard = Unmounted THEN {} ELSE dashboard.runs

DashSettles ==
    \E r \in DashRuns, i \in IndicatorIds, out \in {"ok", "throw"} :
        DashFetchSettles(r, i, out)

\* App renders the component.
DashMount ==
    /\ dashboard = Unmounted
    /\ dashboard' = DashboardMounted
    /\ UNCHANGED <<service, mapContainer, comparisonTool, downloadPanel>>

NextDashboard ==
    \/ DashMount
    \/ \E y \in DashYears : DashYearChange(y)
    \/ DashSettles
    \/ HandleRefreshData

\* A fetch in flight settles: the request either completes or fails.  The
\* user is under no obligation to act.
SpecDashboard == Init /\ [][NextDashboard]_vars /\ WF_vars(DashSettles)

----------------------------------------------------------------------------
(* ComparisonTool: the effect on [comparisonYear, currentYear,              *)
(* selectedRegion] and fetchComparison                                      *)

CmpYears == {2000, 2020, 2021}
CmpRegions == {"kathmandu", "everest"}

\* The effect, for the props and state it runs with.
CmpEffect(year, region) ==
    LET id == comparisonTool.effects + 1
        c == [comparisonTool EXCEPT !.currentYear = year,
                                    !.selectedRegion = region, !.effects = id]
    IN IF c.comparisonYear < year
       THEN [c EXCEPT !.loading = TRUE, !.error = NoErrorMessage,
                      !.runs = @ \cup {FetchComparison(id, c.comparisonYear,
                                                       year, region)}]
       ELSE [c EXCEPT !.results = NoResults]

\* The time slider moves.
CmpYearChange(year) ==
    /\ comparisonTool # Unmounted
    /\ comparisonTool.effects < MaxEffects
    /\ year # comparisonTool.currentYear
    /\ comparisonTool' = CmpEffect(year, comparisonTool.selectedRegion)
    /\ UNCHANGED <<service, mapContainer, dashboard, downloadPanel>>

\* A region button is clicked.
CmpSelectRegion(region) ==
    /\ comparisonTool # Unmounted
    /\ comparisonTool.effects < MaxEffects
    /\ region # comparisonTool.selectedRegion
    /\ comparisonTool' = CmpEffect(comparisonTool.currentYear, region)
    /\ UNCHANGED <<service, mapContainer, dashboard, downloadPanel>>

\* The await run r is suspended at returns: the comparison data is shown, or
\* the fallback goes on to its second read, or the fallback result is shown;
\* finally setLoading(false).
CmpAwaitReturns(r) ==
    /\ comparisonTool' =
         CASE r.pc = "comparison" ->
                [comparisonTool EXCEPT
                   !.results = CmpResults("backend", r.baseline, r.year, "ok"),
                   !.loading = FALSE, !.runs = @ \ {r}]
           [] r.pc = "baseline" ->
                [comparisonTool EXCEPT
                   !.runs = (@ \ {r}) \cup
                            {CmpRun(r.id, "latest", r.baseline, r.year,
                                    r.region, r.backend)}]
           [] r.pc = "latest" ->
                [comparisonTool EXCEPT
                   !.results = CmpResults("fallback", r.baseline, r.year,
                                          r.backend),
                   !.loading = FALSE, !.runs = @ \ {r}]
    /\ UNCHANGED <<service, mapContainer, dashboard, downloadPanel>>

\* The await run r is suspended at throws: the comparison call's failure
\* starts the fallback; a failure of the fallback sets the error message and
\* setResults(null); finally setLoading(false).
CmpAwaitThrows(r) ==
    /\ comparisonTool' =
         IF r.pc = "comparison"
         THEN [comparisonTool EXCEPT
                 !.runs = (@ \ {r}) \cup
                          {CmpRun(r.id, "baseline", r.baseline, r.year,
                                  r.region, "failed")}]
         ELSE [comparisonTool EXCEPT
                 !.error = "Failed to load comparison",
                 !.results = NoResults,
                 !.loading = FALSE, !.runs = @ \ {r}]
    /\ UNCHANGED <<service, mapContainer, dashboard, downloadPanel>>

\* The runs of fetchComparison in progress.
CmpRuns == IF comparisonTool = Unmounted THEN {} ELSE comparisonTool.runs

\* App renders the component.
CmpMount ==
    /\ comparisonTool = Unmounted
    /\ comparisonTool' = ComparisonToolMounted
    /\ UNCHANGED <<service, mapContainer, dashboard, downloadPanel>>

NextComparison ==
    \/ CmpMount
    \/ \E y \in CmpYears : CmpYearChange(y)
    \/ \E g \in CmpRegions : CmpSelectRegion(g)
    \/ \E r \in CmpRuns : CmpAwaitReturns(r)
    \/ \E r \in CmpRuns : CmpAwaitThrows(r)

SpecComparison == Init /\ [][NextComparison]_vars

----------------------------------------------------------------------------
(* DownloadPanel: handleGenerate and the footer buttons                     *)

Formats == {"pdf", "image", "csv"}

\* The data options the request of handleGenerate reads.
DataOptions == {"map", "charts", "data"}

\* A format button is clicked.
SelectFormat(format) ==
    /\ downloadPanel # Unmounted
    /\ format # downloadPanel.selectedFormat
    /\ downloadPanel' = [downloadPanel EXCEPT !.selectedFormat = format]
    /\ UNCHANGED <<service, mapContainer, dashboard, comparisonTool>>

\* A data option is ticked or unticked.
ToggleData(option) ==
    /\ downloadPanel # Unmounted
    /\ downloadPanel' =
         [downloadPanel EXCEPT
            !.selectedData = IF option \in @ THEN @ \ {option}
                             ELSE @ \cup {option}]
    /\ UNCHANGED <<service, mapContainer, dashboard, comparisonTool>>

\* A handleGenerate that forgets its finally block when it fails.
HandleGenerateThrowsNoFinally ==
    /\ downloadPanel # Unmounted
    /\ downloadPanel.pc # "idle"
    /\ downloadPanel' = [downloadPanel EXCEPT !.isComplete = FALSE,
                                              !.pc = "idle"]
    /\ UNCHANGED <<service, mapContainer, dashboard, comparisonTool>>

\* The Generate button, which is rendered while isComplete is false and is
\* enabled while isGenerating is false: handleGenerate up to its first await,
\* or to its end for the 'image' format, which awaits nothing.
HandleGenerate ==
    LET begun == [downloadPanel EXCEPT !.isGenerating = TRUE,
                                         !.isComplete = FALSE,
                                         !.downloadUrl = "null"]
    IN /\ downloadPanel # Unmounted
       /\ ~downloadPanel.isComplete
       /\ ~downloadPanel.isGenerating
       /\ downloadPanel' =
            CASE downloadPanel.selectedFormat = "pdf" ->
                   [begun EXCEPT !.pc = "report"]
              [] downloadPanel.selectedFormat \in {"csv", "json"} ->
                   [begun EXCEPT !.pc = "export"]
              [] OTHER ->
                   [begun EXCEPT !.isComplete = FALSE,
                                   !.isGenerating = FALSE]
       /\ UNCHANGED <<service, mapContainer, dashboard, comparisonTool>>

\* The await handleGenerate is suspended at returns.  ok is response.ok of
\* the export request.  A report gives the URL built from its download_url;
\* a response that is not ok throws; a blob gives an object URL.  The state
\* setters that follow the last await run in one piece with the finally block.
HandleGenerateReturns(ok) ==
    /\ downloadPanel # Unmounted
    /\ downloadPanel.pc # "idle"
    /\ downloadPanel' =
         CASE downloadPanel.pc = "report" ->
                [downloadPanel EXCEPT
                   !.downloadUrl = "report", !.downloadName = "pdf",
                   !.isComplete = TRUE, !.isGenerating = FALSE, !.pc = "idle"]
           [] downloadPanel.pc = "export" /\ ok ->
                [downloadPanel EXCEPT !.pc = "blob"]
           [] downloadPanel.pc = "export" /\ ~ok ->
                [downloadPanel EXCEPT
                   !.isComplete = FALSE, !.isGenerating = FALSE, !.pc = "idle"]
           [] downloadPanel.pc = "blob" ->
                [downloadPanel EXCEPT
                   !.downloadUrl = "blob", !.downloadName = "csv",
                   !.isComplete = TRUE, !.isGenerating = FALSE, !.pc = "idle"]
    /\ UNCHANGED <<service, mapContainer, dashboard, comparisonTool>>

\* The await handleGenerate is suspended at throws: catch sets
\* isComplete false, finally sets isGenerating false.
HandleGenerateThrows ==
    /\ downloadPanel # Unmounted
    /\ downloadPanel.pc # "idle"
    /\ downloadPanel' = [downloadPanel EXCEPT !.isComplete = FALSE,
                                              !.isGenerating = FALSE,
                                              !.pc = "idle"]
    /\ UNCHANGED <<service, mapContainer, dashboard, comparisonTool>>

\* The download button of the header: App renders the panel.
OpenPanel ==
    /\ downloadPanel = Unmounted
    /\ downloadPanel' = DownloadPanelMounted
    /\ UNCHANGED <<service, mapContainer, dashboard, comparisonTool>>

\* The panel is closed and opened again: App unmounts it and mounts a new
\* one.  A handleGenerate of the old panel sets the state of the old panel.
Reopen ==
    /\ downloadPanel # Unmounted
    /\ downloadPanel.opens < MaxOpens
    /\ downloadPanel' = [DownloadPanelMounted EXCEPT
                           !.opens = downloadPanel.opens + 1]
    /\ UNCHANGED <<service, mapContainer, dashboard, comparisonTool>>

GenerateSettles ==
    \/ \E ok \in BOOLEAN : HandleGenerateReturns(ok)
    \/ HandleGenerateThrows

NextDownload ==
    \/ OpenPanel
    \/ \E f \in Formats : SelectFormat(f)
    \/ \E d \in DataOptions : ToggleData(d)
    \/ HandleGenerate
    \/ \E ok \in BOOLEAN : HandleGenerateReturns(ok)
    \/ HandleGenerateThrows
    \/ Reopen

\* The request handleGenerate awaits completes or fails.  The user is under
\* no obligation to act.
SpecDownload == Init /\ [][NextDownload]_vars /\ WF_vars(GenerateSettles)

----------------------------------------------------------------------------
(* Properties *)

\* Whether an accessor called now with this key would call the Request Client.
Misses(c, t, n, key) == ~Truthy(DataCacheGet(c, t, n, key).ret)

\* The entry stored under key has not reached its expiry time.
Unexpired(key) == key \in DOMAIN cache /\ key \in DOMAIN ttl /\ now < ttl[key]

\* C1 (as claimed): when an accessor is called while the cache holds an
\* unexpired entry under its key, it returns exactly that value and does not
\* call the Request Client.
C1_ReadThroughHit ==
    [][\A in \in Inputs :
        LET key == CacheKey(in[1], in[2], in[3])
        IN (StartCall(in[1], in[2], in[3]) /\ Unexpired(key))
              => (last'.op = "hit" /\ last'.val = cache[key])]_vars

\* C2 (as claimed): with calls issued one after another from an empty cache,
\* every decoded response is stored under the call's key and returned; a call
\* whose key was stored less than one TTL ago returns that stored value
\* without a request; a call whose key was never stored makes a request.
C2_ReadThroughMiss ==
    [][/\ \A in \in Inputs :
            LET key == CacheKey(in[1], in[2], in[3])
            IN StartCallAlone(in[1], in[2], in[3])
                 => IF key \in DOMAIN written
                    THEN now < written[key].until
                           => (last'.op = "hit"
                               /\ last'.val = written[key].value)
                    ELSE last'.op = "request"
       /\ \A i \in DOMAIN calls, o \in Outcomes :
            ResolveCall(i, o)
              => /\ calls[i].key \in DOMAIN cache'
                 /\ cache'[calls[i].key] = last'.val
                 /\ last'.op = "return"
                 /\ last'.val.data = o.data]_vars

\* C3 (as claimed): when the request of an accessor fails, the caller gets
\* the request's error, the cache holds no entry under the call's key
\* afterwards, no other key's entry is changed, and the next call for the key
\* calls the Request Client.
C3_NoEntryAfterFailure ==
    [][\A i \in DOMAIN calls, o \in Outcomes :
        FailCall(i, o)
          => /\ last'.op = "throw" /\ last'.err = RequestError(o)
             /\ calls[i].key \notin DOMAIN cache'
             /\ \A k \in DOMAIN cache \ {calls[i].key} :
                   /\ k \in DOMAIN cache' /\ cache'[k] = cache[k]
                   /\ k \in DOMAIN ttl' /\ ttl'[k] = ttl[k]
             /\ Misses(cache', ttl', now', calls[i].key)]_vars

\* C3 (amended): when the request of an accessor fails, the caller gets the
\* request's error and the failing call leaves every entry of the cache,
\* under its own key and under every other key, exactly as it was; if the key
\* had no entry when the failure arrived it has none afterwards, and the next
\* call for the key calls the Request Client.
C3_NoNegativeCaching ==
    [][\A i \in DOMAIN calls, o \in Outcomes :
        FailCall(i, o)
          => /\ last'.op = "throw" /\ last'.err = RequestError(o)
             /\ cache' = cache /\ ttl' = ttl
             /\ calls[i].key \notin DOMAIN cache
                  => /\ calls[i].key \notin DOMAIN cache'
                     /\ Misses(cache', ttl', now', calls[i].key)]_vars

\* A call has just failed; its key has no entry and another key's entry is
\* still stored.
C3_Witness ==
    /\ last.op = "throw"
    /\ last.key \notin DOMAIN cache
    /\ DOMAIN cache # {}

\* C4 (as claimed): a get of a key before the lifetime asked for in the last
\* set of that key has elapsed, with no delete or clear in between, returns
\* the value that was set.
C4_LiveRead ==
    [][\A k \in CKeys :
        (CacheGet(k) /\ k \in DOMAIN written /\ now < written[k].until)
          => last'.val = written[k].value]_vars

\* C5 (as claimed): a get at a time at or after the stored expiry time of the
\* key returns absent.
C5_ExpiredRead ==
    [][\A k \in CKeys :
        (CacheGet(k) /\ k \in DOMAIN ttl /\ now >= ttl[k])
          => last'.val = NULL]_vars

\* C6 (as claimed): a set on a key that already holds a value stores the new
\* value and the expiry time now + TTL; a get before that expiry returns the
\* new value and not the one it replaced.
C6_Overwrite ==
    [][/\ \A k \in CKeys, v \in CValues :
            (CacheSet(k, v, Omitted) /\ k \in DOMAIN written)
              => (cache'[k] = v /\ ttl'[k] = now + DefaultTTL)
       /\ \A k \in CKeys :
            (CacheGet(k) /\ k \in DOMAIN written /\ written[k].prev # << >>
               /\ now < written[k].until)
              => /\ last'.val = written[k].value
                 /\ written[k].prev[1] # written[k].value
                      => last'.val # written[k].prev[1]]_vars

\* The key of every (operation, year, region), and whether two of them share one.
KeyOf == [a \in AllInputs |-> CacheKey(a[1], a[2], a[3])]

CacheKeyInjective ==
    \A a \in AllInputs, b \in AllInputs : KeyOf[a] = KeyOf[b] => a = b

\* C7: the cache key is injective over (operation, year, region); a value
\* returned from the cache was produced by a call with the same arguments as
\* the call that receives it, every stored value is stored under the key of
\* the arguments it was fetched for, and a suspended call will overwrite only
\* a value fetched for its own arguments.
C7_KeyIsolation ==
    /\ CacheKeyInjective
    /\ last.op = "hit" => last.val.src = last.args
    /\ \A k \in DOMAIN cache :
          k = CacheKey(cache[k].src[1], cache[k].src[2], cache[k].src[3])
    /\ \A i \in DOMAIN calls :
          calls[i].key \in DOMAIN cache => cache[calls[i].key].src = Args(i)

\* An accessor has just called the Request Client although another accessor's
\* value for the same year and region is stored, truthy and unexpired.
C7_Witness ==
    /\ last.op = "request"
    /\ \E k \in DOMAIN cache :
          /\ cache[k].src[1] # last.args[1]
          /\ cache[k].src[2] = last.args[2]
          /\ cache[k].src[3] = last.args[3]
          /\ Truthy(cache[k])
          /\ Unexpired(k)

\* C8: right after clearCache() a lookup of any key that was stored returns
\* absent, and getCacheStatus() reports size 0 and no keys.
C8_Clear ==
    last.op = "clearCache"
      => /\ \A k \in last.keys : DataCacheGet(cache, ttl, now, k).ret = NULL
         /\ CacheStatus(cache) = [size |-> 0, keys |-> {}]

\* clearCache() has just run on a cache that held an entry.
C8_Witness == last.op = "clearCache" /\ last.keys # {}

\* C9 (as claimed): a value that an accessor returns from the cache was never
\* fetched by a request issued before a clearCache() that has run since.
C9_ReadsAfterClearRefetch == last.op = "hit" => ~last.val.stale

\* C10 (as claimed): getCacheStatus() lists no key whose expiry time has
\* passed, and its size is the number of unexpired entries.
C10_StatusHidesExpired ==
    [][GetCacheStatus
        => /\ \A k \in last'.keys : ~(k \in DOMAIN ttl /\ now >= ttl[k])
           /\ last'.size = Cardinality({k \in DOMAIN cache : Unexpired(k)})]_vars

\* C10 (amended): getCacheStatus() reports the stored entries, expired or
\* not: its keys are exactly the keys that have a stored value, and its size
\* is their number; an entry whose expiry time has passed stays listed until
\* a lookup of its key or clearCache() removes it.
C10_StatusReportsStored ==
    last.op = "getCacheStatus"
      => /\ last.keys = DOMAIN cache
         /\ last.size = Cardinality(DOMAIN cache)

\* getCacheStatus() has just listed a key whose expiry time has passed.
C10_Witness ==
    /\ last.op = "getCacheStatus"
    /\ \E k \in last.keys : k \in DOMAIN ttl /\ now > ttl[k]

\* C11: getCacheStatus() is read-only: it leaves the stored values, the expiry
\* times and the set of keys as they were, and it starts no request (no call
\* is added to the suspended calls and no call number is consumed).
C11_StatusReadOnly ==
    [][GetCacheStatus
        => /\ cache' = cache
           /\ ttl' = ttl
           /\ DOMAIN cache' = DOMAIN cache
           /\ calls' = calls
           /\ started' = started]_vars

\* getCacheStatus() has just run while the cache held an entry past its expiry
\* time and an accessor call was suspended.
C11_Witness ==
    /\ last.op = "getCacheStatus"
    /\ \E k \in DOMAIN cache : k \in DOMAIN ttl /\ now > ttl[k]
    /\ DOMAIN calls # {}

\* C12 (as claimed): a get of a key whose expiry time has been reached returns
\* absent and removes the key from the value map and from the expiry map, so
\* that the status no longer lists it; and the passage of time alone removes
\* nothing.
C12_LazyEviction ==
    [][/\ \A k \in CKeys :
            (CacheGet(k) /\ k \in DOMAIN ttl /\ now >= ttl[k])
              => /\ last'.val = NULL
                 /\ k \notin DOMAIN cache'
                 /\ k \notin DOMAIN ttl'
                 /\ k \notin CacheStatus(cache').keys
       /\ Tick => (cache' = cache /\ ttl' = ttl)]_vars

\* What every failed exchange does to the operation that is waiting for it:
\* the operation ends by throwing the error that request raised.
FailuresSurface ==
    /\ \A i \in PassCalls, r \in FetchResults :
          (FetchSettles(i, r) /\ ~(r.kind = "response" /\ ResponseOk(r.status)))
            => /\ last'.op = "throw"
               /\ last'.err = RequestError(
                     Exchange(IF r.kind = "reject" THEN "transport" ELSE "http",
                              r.status))
               /\ last'.err.name # "none"
    /\ \A i \in PassCalls :
          JsonSettles(i, [kind |-> "reject", data |-> "none"])
            => /\ last'.op = "throw"
               /\ last'.err = RequestError(Exchange("decode", 0))
               /\ last'.err.name # "none"
    /\ \A i \in AccessorCalls, o \in Outcomes :
          FailCall(i, o)
            => (last'.op = "throw" /\ last'.err = RequestError(o)
                /\ last'.err.name # "none")
    /\ \A i \in AccessorCalls, o \in Outcomes :
          ResolveCall(i, o) => (last'.op = "return" /\ last'.err = NoError)

\* C13 (as claimed): an operation of the service or the client ends with an
\* error if and only if its HTTP exchange failed, and the error is the one
\* request raised: a failed exchange always throws request's error, and an
\* exchange that ended with a decoded body always returns.
C13_ErrorIffExchangeFailed ==
    [][/\ FailuresSurface
       /\ \A i \in PassCalls, b \in JsonResults :
            (JsonSettles(i, b) /\ b.kind = "value")
              => (last'.op = "return" /\ last'.err = NoError)]_vars

\* C13 (amended): no failure is swallowed: a failed exchange always ends the
\* operation with the error request raised.  An exchange that ended with a
\* decoded body makes the operation return, with one exception: getRegions
\* throws a TypeError of its own when the decoded body is null, because it
\* reads .regions of the result.
C13_ErrorPropagation ==
    [][/\ FailuresSurface
       /\ \A i \in PassCalls, b \in JsonResults :
            (JsonSettles(i, b) /\ b.kind = "value")
              => IF calls[i].op = "regions" /\ b.data = "nil"
                 THEN last'.op = "throw" /\ last'.err = PropertyReadError
                 ELSE last'.op = "return" /\ last'.err = NoError]_vars

\* A pass-through operation has just thrown the decode error of its request.
C13_Witness ==
    /\ last.op = "throw"
    /\ last.args \in {<<op>> : op \in PassOps}
    /\ last.err.name = "SyntaxError"

\* C14: an invocation of request issues exactly one HTTP call whatever the
\* outcome: it starts with one fetch, a settled fetch either ends the
\* invocation or, for an ok response, goes on to read the body without
\* fetching again, and the settled body ends it; a response with a
\* non-success status ends the invocation with an error carrying that status.
C14_NoRetry ==
    [][/\ \A op \in PassOps :
            StartPass(op) => calls'[started'].fetches = 1
       /\ \A i \in PassCalls, r \in FetchResults :
            FetchSettles(i, r)
              => /\ calls[i].fetches = 1
                 /\ IF r.kind = "response" /\ ResponseOk(r.status)
                    THEN calls'[i].pc = "json" /\ calls'[i].fetches = 1
                    ELSE i \notin DOMAIN calls' /\ last'.op = "throw"
                 /\ (r.kind = "response" /\ ~ResponseOk(r.status))
                      => (last'.err.name = "Error"
                          /\ last'.err.status = r.status)
       /\ \A i \in PassCalls, b \in JsonResults :
            JsonSettles(i, b)
              => (calls[i].fetches = 1 /\ i \notin DOMAIN calls')]_vars

\* An invocation has just ended with the HTTP error of a 404 response.
C14_Witness ==
    /\ last.op = "throw"
    /\ last.args \in {<<op>> : op \in PassOps}
    /\ last.err = [name |-> "Error", status |-> 404]

\* The case a caller reads off the error it caught.
ErrorKind(err) ==
    CASE err.name = "Error" -> "http"
      [] err.name = "SyntaxError" -> "decode"
      [] err.name = "TypeError" -> "transport"
      [] OTHER -> "none"

C16_PassThroughUncached ==
    [][/\ \A op \in PassOps :
            StartPass(op)
              => /\ last'.op = "request"
                 /\ DOMAIN calls' = DOMAIN calls \cup {started'}
                 /\ started' \notin DOMAIN calls
                 /\ calls'[started'].pc = "fetch"
                 /\ cache' = cache /\ ttl' = ttl
       /\ \A i \in PassCalls, r \in FetchResults :
            FetchSettles(i, r) => (cache' = cache /\ ttl' = ttl)
       /\ \A i \in PassCalls, b \in JsonResults :
            JsonSettles(i, b) => (cache' = cache /\ ttl' = ttl)]_vars

\* A pass-through operation has just called the Request Client while an
\* identical call made before it is still in flight and the cache holds an
\* entry.
C16_Witness ==
    /\ last.op = "request"
    /\ last.args \in {<<op>> : op \in PassOps}
    /\ \E i \in DOMAIN calls : i < started /\ calls[i].op = last.args[1]
    /\ DOMAIN cache # {}

\* C17 (as claimed): when a call of an accessor starts while another call
\* with the same arguments is still suspended and the cache holds no live
\* entry for the key, it calls the Request Client too; and every call that
\* resolves writes its own result under the key, so the entry left is the
\* result of the call that resolved last.
C17_NoDedup ==
    [][/\ (StartDup /\ (\E i \in DOMAIN calls : calls[i].key = DupKey)
             /\ ~Unexpired(DupKey))
            => (last'.op = "request"
                /\ Cardinality({i \in DOMAIN calls' : calls'[i].key = DupKey}) >= 2)
       /\ \A i \in DOMAIN calls, o \in Outcomes :
            ResolveCall(i, o)
              => /\ cache'[DupKey] = Obj(o.data, i, Args(i), calls[i].cleared)
                 /\ ttl'[DupKey] = now + DefaultTTL]_vars

\* Service object s has just taken a step of one of its operations.
ActsOn(s) ==
    \/ \E in \in InstInputs : InstCall(s, in[1], in[2], in[3])
    \/ \E i \in DOMAIN calls, o \in Outcomes :
          calls[i].svc = s /\ (InstResolve(i, o) \/ InstFail(i, o))
    \/ InstClearCache(s)
    \/ InstGetCacheStatus(s)

\* C18: two service objects share no cache state: no step of an operation of
\* one (a read that hits, misses, resolves or fails, clearCache,
\* getCacheStatus) changes the stored values, the expiry times or the
\* status of the other.
C18_InstanceIndependence ==
    [][\A s \in Instances, t \in Instances :
        (s # t /\ ActsOn(s))
          => /\ StoreOf(t)' = StoreOf(t)
             /\ CacheStatus(StoreOf(t).cache)' = CacheStatus(StoreOf(t).cache)]_vars

\* Service object 1 has just cleared its cache, which held an entry, while
\* the cache of service object 2 holds an entry.
C18_Witness ==
    /\ last.op = "clearCache"
    /\ last.args = <<1>>
    /\ last.keys # {}
    /\ DOMAIN StoreOf(1).cache = {}
    /\ DOMAIN StoreOf(2).cache # {}

\* C19 (as claimed): what a caller does to a value it received does not reach
\* the cache: a cache hit returns the value as it was when it was stored.
C19_CallersCannotModify ==
    (last.op = "hit" /\ last.key \in DOMAIN written)
      => last.val = written[last.key].value

\* C20 (as claimed): set stores the expiry time now + ttl for every ttl the
\* caller supplies, 0 included, and now + the default TTL only when the
\* caller leaves the ttl out.
C20_ExplicitTTL ==
    [][\A k \in CKeys, v \in CValues, t \in TTLArgs :
        CacheSet(k, v, t)
          => ttl'[k] = now + (IF t = Omitted THEN DefaultTTL ELSE t[1])]_vars

\* C21: only a set on its key changes the expiry time of an entry: whatever
\* reads, status calls, and sets of other keys followed, every stored entry
\* still has the expiry time that the last set on its key gave it, one
\* default TTL after that set.
C21_OnlySetExtends ==
    \A k \in DOMAIN ttl :
        k \in DOMAIN written /\ ttl[k] = written[k].until

\* C21 is exercised: an entry is read from the cache after the clock has moved
\* past the moment it was written, and its expiry time is the one of its set.
C21_Witness ==
    /\ last.op = "hit"
    /\ last.key \in DOMAIN ttl
    /\ ttl[last.key] = written[last.key].until
    /\ now > ttl[last.key] - DefaultTTL

\* C22: in every step in which a suspended accessor returns the fetched
\* result, the result is stored under the call's key with the expiry time
\* now + default TTL, where now is the moment of the return (the write),
\* whenever the call began.
C22_TTLFromWrite ==
    [][(last'.op = "return" /\ DOMAIN calls' # DOMAIN calls)
         => /\ last'.key \in DOMAIN ttl'
            /\ ttl'[last'.key] = now + DefaultTTL
            /\ cache'[last'.key] = last'.val]_vars

\* C22 is exercised: call 1 returns at a moment later than its start.  Call 2
\* began after call 1 and its result was written at an earlier moment than
\* now, so call 1 began before now; its entry expires one TTL after now.
C22_Witness ==
    /\ last.op = "return"
    /\ last.val.id = 1
    /\ ttl[last.key] = now + DefaultTTL
    /\ \E k \in DOMAIN written :
          /\ written[k].value.id = 2
          /\ written[k].until < now + DefaultTTL

\* C23: delete(key) leaves no value and no expiry time under key, changes
\* nothing at all when key had no entry, leaves the value and the expiry time
\* of every other key as they were, and a second delete(key) right after it
\* changes nothing.
C23_Delete ==
    [][\A k \in CKeys :
        CacheDelete(k)
          => /\ k \notin DOMAIN cache' /\ k \notin DOMAIN ttl'
             /\ (k \notin DOMAIN cache /\ k \notin DOMAIN ttl
                    => cache' = cache /\ ttl' = ttl)
             /\ \A j \in (DOMAIN cache \cup DOMAIN cache') \ {k} :
                    /\ j \in DOMAIN cache /\ j \in DOMAIN cache'
                    /\ cache'[j] = cache[j]
             /\ \A j \in (DOMAIN ttl \cup DOMAIN ttl') \ {k} :
                    /\ j \in DOMAIN ttl /\ j \in DOMAIN ttl'
                    /\ ttl'[j] = ttl[j]
             /\ DataCacheDelete(cache', ttl', k)
                  = [cache |-> cache', ttl |-> ttl']]_vars

\* C23 is exercised: a delete has just run on one key while the other key
\* has an entry, which is still stored.
C23_Witness ==
    /\ last.op = "delete"
    /\ last.key \notin DOMAIN cache
    /\ \E j \in CKeys \ {last.key} : j \in DOMAIN cache /\ j \in DOMAIN ttl

\* C24: a suspended call blocks nothing.  In every state where some call is
\* suspended, clearCache and getCacheStatus can run, every accessor can run
\* for every input (while the model has calls left), and every suspended call
\* completes, by returning or throwing, for each way its own exchange can end,
\* whatever the other calls are doing.
C24_NoBlocking ==
    DOMAIN calls # {}
      => /\ ENABLED ClearCache
         /\ ENABLED GetCacheStatus
         /\ started < MaxCalls
              => \A in \in Inputs : ENABLED StartCall(in[1], in[2], in[3])
         /\ \A i \in DOMAIN calls, o \in Outcomes :
              ENABLED (ResolveCall(i, o) \/ FailCall(i, o))

\* C24 is exercised: getCacheStatus has just run while a call is suspended
\* during which clearCache ran as well.
C24_Witness ==
    /\ last.op = "getCacheStatus"
    /\ \E i \in DOMAIN calls : calls[i].cleared

\* C25 (as claimed): once every fetch the MapContainer started has settled,
\* the markers are the ones made for the selected year and indicator, and
\* the error message is shown exactly when those markers are the sample
\* markers of a failed fetch.
C25_LatestSelection ==
    (mapContainer # Unmounted /\ mapContainer.fetches = {})
      => /\ mapContainer.mapDataPoints.year = mapContainer.currentYear
         /\ mapContainer.mapDataPoints.type = mapContainer.selectedIndicator
         /\ (mapContainer.error # NoErrorMessage
               <=> mapContainer.mapDataPoints.kind = "sample")

\* C26 (as claimed): MapContainer's isLoading is true exactly while a fetch
\* it started has not settled.
C26_LoadingFlag ==
    mapContainer # Unmounted
      => (mapContainer.isLoading <=> mapContainer.fetches # {})

\* C27 (as claimed): whenever handleRefreshData has set every indicator of
\* the dashboard to loading, a state follows in which no indicator is
\* loading, given only that fetches in flight settle.
C27_RefreshLiveness ==
    (/\ dashboard # Unmounted
     /\ dashboard.op = "refresh"
     /\ \A i \in IndicatorIds : dashboard.indicators[i].isLoading)
      ~> (/\ dashboard # Unmounted
          /\ \A i \in IndicatorIds : ~dashboard.indicators[i].isLoading)

\* C28 (as claimed): the results ComparisonTool shows come from the
\* temporal-comparison operation of the shared service, and a result computed
\* by the fallback from two NDVI reads is shown only when the request of that
\* operation was made and failed.
C28_DataSource ==
    comparisonTool # Unmounted
      => /\ comparisonTool.results.origin = "fallback"
              => comparisonTool.results.backend = "failed"
         /\ comparisonTool.results.origin # "null"
              => comparisonTool.results.backend \in {"ok", "failed"}

\* isComplete and isGenerating of the rendered panel.
Generated == downloadPanel # Unmounted /\ downloadPanel.isComplete
Generating == downloadPanel # Unmounted /\ downloadPanel.isGenerating

\* C29: in every state of the DownloadPanel, isComplete implies a download
\* URL, isComplete and isGenerating are not both true, and whenever
\* isGenerating is true a state follows in which it is false, given only that
\* the request handleGenerate awaits settles.
C29_DownloadPanel ==
    /\ [](Generated => downloadPanel.downloadUrl # "null")
    /\ [](~(Generated /\ Generating))
    /\ (Generating ~> ~Generating)

\* C29 is exercised: a csv export went through both of its awaits and the
\* panel shows the download of the blob.
C29_Witness ==
    /\ Generated
    /\ downloadPanel.downloadUrl = "blob"
    /\ ~Generating

\* C30: the value map and the expiry map of a DataCache always have the same
\* keys: no value without an expiry time, no expiry time without a value.
C30_SameKeys ==
    DOMAIN cache = DOMAIN ttl

\* C30 is exercised: a get has just evicted the expired entry of one key
\* (a set on that key is on record and the key is stored no more) while the
\* other key keeps its entry.
C30_Witness ==
    /\ last.op = "get"
    /\ last.key \in DOMAIN written
    /\ last.key \notin DOMAIN cache
    /\ last.key \notin DOMAIN ttl
    /\ \E j \in CKeys \ {last.key} : j \in DOMAIN cache /\ j \in DOMAIN ttl

====
